---------------------------- MODULE Spec2Model ----------------------------
(***************************************************************************)
(* State-machine model of src/src/tile_matmul.cpp: the tiled multiplier,   *)
(* the baseline multiplier, the verifier (unit_testing), result_print and  *)
(* main.  Every loop header of the source is one action; the multiply-     *)
(* accumulate statement is part of the innermost loop's action.            *)
(*                                                                         *)
(* Numbers.  Loop indices and sizes are `unsigned int`: W-bit values with  *)
(* arithmetic modulo 2^W (W is scaled down from 32).  Matrix cells are     *)
(* `float`: binary floating point with a MantBits-bit significand and      *)
(* round-to-nearest-even (MantBits is scaled down from 24; no NaN, no      *)
(* infinity, no underflow).  A cell of mat_b_vec, mat_res_vec or mat_c_vec *)
(* holding the integer n stands for the float n * 2^-UnitExp, a cell of    *)
(* mat_a_vec holding n stands for n itself, so that a product of an A cell *)
(* and a B cell is again in units of 2^-UnitExp and the tolerance 1e-6     *)
(* lies strictly between 2 and 3 units.                                    *)
(***************************************************************************)
EXTENDS Integers, Sequences, FiniteSets, TLC

(* ------------------------------ bounds -------------------------------- *)
\* Spec enumerates dimensions up to MaxDim and tile sizes up to MaxTile.  Both
\* stay where i + tile_size cannot wrap (MaxDim <= 2^(W-1), MaxDim + MaxTile <=
\* 2^W): that is the program with dimensions up to 2^31.  SpecWide enumerates
\* every value of an unsigned int instead.
\* largest matrix dimension Spec enumerates
MaxDim == 3
\* largest tile size Spec enumerates (larger than every dimension)
MaxTile == 4
\* width of unsigned int in the model
W == 3
\* significand width of float in the model
MantBits == 3

(* --------------------------- number model ----------------------------- *)
RECURSIVE Pow2(_)
Pow2(n) == IF n = 0 THEN 1 ELSE 2 * Pow2(n - 1)

\* unsigned int wraps modulo 2^W
UIntMod == Pow2(W)
UAdd(a, b) == (a + b) % UIntMod

Min(a, b) == IF b < a THEN b ELSE a

Abs(v) == IF v < 0 THEN -v ELSE v

\* the power of two by which a magnitude m is quantised: 1 while m fits the
\* significand, doubled for every further bit
RECURSIVE Quantum(_, _)
Quantum(m, q) == IF m < q * Pow2(MantBits) THEN q ELSE Quantum(m, 2 * q)

\* round-to-nearest, ties-to-even, of a magnitude to the float grid
RoundMag(m) ==
    LET q   == Quantum(m, 1)
        lo  == (m \div q) * q
        rem == m - lo
    IN  IF 2 * rem < q THEN lo
        ELSE IF 2 * rem > q THEN lo + q
        ELSE IF (lo \div q) % 2 = 0 THEN lo ELSE lo + q

Rnd(v) == IF v < 0 THEN -RoundMag(-v) ELSE RoundMag(v)

FMul(a, b) == Rnd(a * b)
FAdd(a, b) == Rnd(a + b)
FSub(a, b) == Rnd(a - b)

\* const float epsilon = 1e-6f, as the fraction EpsNum / EpsDen
EpsNum == 1
EpsDen == 1000000
\* a cell value n stands for n / 2^UnitExp
UnitExp == 21
\* fabs(d) > epsilon, for d in units of 2^-UnitExp
ExceedsEpsilon(d) == Abs(d) * EpsDen > EpsNum * Pow2(UnitExp)

(* ------------------------------ matrices ------------------------------ *)
\* std::vector<std::vector<float>> of r rows and c columns, zero-based, all 0.0f
ZeroMat(r, c) == [rr \in 0..(r - 1) |-> [cc \in 0..(c - 1) |-> 0]]
\* std::vector::size() of the outer vector
Size(M) == Cardinality(DOMAIN M)

\* the matrices that are enumerated as inputs
APatterns == {1, 2}
BPatterns == {1, 2}
AVal(p, r, c) == IF p = 1 THEN (IF c = 0 THEN 4 ELSE 1) ELSE ((r + 2 * c) % 3) - 1
BVal(p, r, c) == IF p = 1 THEN (IF r = 0 THEN 2 ELSE 1) ELSE (2 * ((r + c) % 2)) + 1
AMat(p, r, c) == [rr \in 0..(r - 1) |-> [cc \in 0..(c - 1) |-> AVal(p, rr, cc)]]
BMat(p, r, c) == [rr \in 0..(r - 1) |-> [cc \in 0..(c - 1) |-> BVal(p, rr, cc)]]
\* a pre-initialised, non-zero output accumulator
DirtyMat(r, c) == [rr \in 0..(r - 1) |-> [cc \in 0..(c - 1) |-> 3 + ((rr + cc) % 2)]]

\* the float sum the triple loop of the baseline leaves in cell (r, c) after
\* its first n contraction steps, from a zero cell
RECURSIVE RefSum(_, _, _, _, _)
RefSum(A, B, r, c, n) ==
    IF n = 0 THEN 0
    ELSE FAdd(RefSum(A, B, r, c, n - 1), FMul(A[r][n - 1], B[n - 1][c]))

\* candidate results handed to the verifier: the product with no cell, one
\* cell (pi, pj) or every cell moved by a few units
Deltas == {-3, 1, 2, 3}
Perturbations(r, c) ==
    {[pi |-> -1, pj |-> -1, d |-> 0], [pi |-> -2, pj |-> -2, d |-> 0]}
        \cup [pi : 0..(r - 1), pj : 0..(c - 1), d : Deltas]
PertAt(q, rr, cc) ==
    IF q.pi = -2 THEN (2 * ((rr + (2 * cc)) % 3)) - 1
    ELSE IF q.pi = rr /\ q.pj = cc THEN q.d ELSE 0
Candidate(A, B, r, c, n, q) ==
    [rr \in 0..(r - 1) |-> [cc \in 0..(c - 1) |->
        Rnd(RefSum(A, B, rr, cc, n) + PertAt(q, rr, cc))]]

(* ------------------------------- state -------------------------------- *)
VARIABLES
    entry,        \* the function the environment calls: a multiplier, the verifier or main
    pc,           \* the statement about to execute
    stack,        \* return addresses of the calls in progress
    mat_a_vec, mat_b_vec,   \* the input matrices
    mat_res_vec,  \* the output of tiled_matrix_mult, the candidate of unit_testing
    mat_c_vec,    \* the output of cpu_2d_matrix_mult_baseline
    a_mat_rows, a_mat_cols, b_mat_rows, b_mat_cols, tile_size,
    i, j, k, x, y, z,       \* the loop indices
    ret_tiled, ret_baseline, \* "none" until the function returns, then "true" or "false"
    exit_status,  \* -1 while main runs, then its return value
    stdout,       \* what printf has written, one record per call
    out0,         \* history: the output matrix as it was when entry was called
    tvisits,      \* history: <<x, y, z, new cell value>> of every execution of line 55
    bvisits,      \* history: <<i, j, k, new cell value>> of every execution of line 98
    calls         \* history: the calls and returns, in order

mats == <<mat_a_vec, mat_b_vec>>
dims == <<a_mat_rows, a_mat_cols, b_mat_rows, b_mat_cols, tile_size>>
idx  == <<i, j, k, x, y, z>>
rets == <<ret_tiled, ret_baseline, exit_status>>
vars == <<entry, pc, stack, mats, mat_res_vec, mat_c_vec, dims, idx, rets,
          stdout, out0, tvisits, bvisits, calls>>

\* state shared by every way of starting the program
Idle ==
    /\ stack = << >>
    /\ i = 0 /\ j = 0 /\ k = 0 /\ x = 0 /\ y = 0 /\ z = 0
    /\ ret_tiled = "none" /\ ret_baseline = "none" /\ exit_status = -1
    /\ stdout = << >> /\ tvisits = << >> /\ bvisits = << >>

\* a direct call tiled_matrix_mult(A, B, out, T, rows_A, cols_A, cols_B)
InitTiled ==
    \E ra \in 1..MaxDim, ca \in 1..MaxDim, rb \in 1..MaxDim, cb \in 1..MaxDim,
       t \in 0..MaxTile, pa \in APatterns, pb \in BPatterns, dirty \in BOOLEAN :
        /\ entry = "tiled_matrix_mult" /\ pc = "tiled_check"
        /\ calls = << <<"call", "tiled_matrix_mult", "">> >>
        /\ a_mat_rows = ra /\ a_mat_cols = ca /\ b_mat_rows = rb /\ b_mat_cols = cb
        /\ tile_size = t
        /\ mat_a_vec = AMat(pa, ra, ca) /\ mat_b_vec = BMat(pb, rb, cb)
        /\ mat_res_vec = (IF dirty THEN DirtyMat(ra, cb) ELSE ZeroMat(ra, cb))
        /\ mat_c_vec = ZeroMat(0, 0)
        /\ out0 = mat_res_vec
        /\ Idle

\* a direct call cpu_2d_matrix_mult_baseline(A, B, out, rows_A, cols_A, cols_B)
InitBaseline ==
    \E ra \in 1..MaxDim, ca \in 1..MaxDim, rb \in 1..MaxDim, cb \in 1..MaxDim,
       pa \in APatterns, pb \in BPatterns, dirty \in BOOLEAN :
        /\ entry = "cpu_2d_matrix_mult_baseline" /\ pc = "baseline_check"
        /\ calls = << <<"call", "cpu_2d_matrix_mult_baseline", "">> >>
        /\ a_mat_rows = ra /\ a_mat_cols = ca /\ b_mat_rows = rb /\ b_mat_cols = cb
        /\ tile_size = 0
        /\ mat_a_vec = AMat(pa, ra, ca) /\ mat_b_vec = BMat(pb, rb, cb)
        /\ mat_c_vec = (IF dirty THEN DirtyMat(ra, cb) ELSE ZeroMat(ra, cb))
        /\ mat_res_vec = ZeroMat(0, 0)
        /\ out0 = mat_c_vec
        /\ Idle

\* a direct call unit_testing(A, B, candidate, rows_A, cols_A, cols_B)
InitUnitTesting ==
    \E ra \in 1..MaxDim, ca \in 1..MaxDim, rb \in 1..MaxDim, cb \in 1..MaxDim,
       pa \in APatterns, pb \in BPatterns :
        /\ entry = "unit_testing" /\ pc = "ut_entry"
        /\ calls = << <<"call", "unit_testing", "">> >>
        /\ a_mat_rows = ra /\ a_mat_cols = ca /\ b_mat_rows = rb /\ b_mat_cols = cb
        /\ tile_size = 0
        /\ mat_a_vec = AMat(pa, ra, ca) /\ mat_b_vec = BMat(pb, rb, cb)
        /\ IF ca = rb
              THEN \E q \in Perturbations(ra, cb) :
                     mat_res_vec = Candidate(mat_a_vec, mat_b_vec, ra, cb, ca, q)
              ELSE mat_res_vec \in {ZeroMat(ra, cb), DirtyMat(ra, cb)}
        /\ mat_c_vec = ZeroMat(0, 0)
        /\ out0 = mat_res_vec
        /\ Idle

\* the program is started: main reads everything from standard input
InitMain ==
    /\ entry = "main" /\ pc = "main_dims"
    /\ calls = << <<"call", "main", "">> >>
    /\ a_mat_rows = 0 /\ a_mat_cols = 0 /\ b_mat_rows = 0 /\ b_mat_cols = 0
    /\ tile_size = 0
    /\ mat_a_vec = ZeroMat(0, 0) /\ mat_b_vec = ZeroMat(0, 0)
    /\ mat_res_vec = ZeroMat(0, 0) /\ mat_c_vec = ZeroMat(0, 0)
    /\ out0 = ZeroMat(0, 0)
    /\ Idle

Init == InitTiled \/ InitBaseline \/ InitUnitTesting \/ InitMain

(* ------------------------- calls and returns -------------------------- *)
\* where control goes when the running function returns
ReturnPc == IF stack = << >> THEN "done" ELSE Head(stack)
ReturnStack == IF stack = << >> THEN stack ELSE Tail(stack)

\* if (a_mat_cols != mat_b_vec.size())
DimMismatchMut == a_mat_cols > Size(mat_b_vec)
DimMismatch == a_mat_cols # Size(mat_b_vec)

\* every triple of the iteration space can be recorded once more than it should occur
VisitCap == a_mat_rows * a_mat_cols * b_mat_cols

(* ------------------------- tiled_matrix_mult -------------------------- *)
\* i += tile_size and its two siblings
NextTileMut(lo) == UAdd(lo, tile_size + 1)
NextTile(lo) == UAdd(lo, tile_size)

\* x = i and its two siblings: an inner loop starts where its tile starts
TileStartMut(lo) == 0
TileStart(lo) == lo

\* std::min(i + tile_size, a_mat_rows) and its two siblings
TileEndMut(lo, n) == UAdd(lo, tile_size)
TileEnd(lo, n) == Min(UAdd(lo, tile_size), n)

\* mat[r][c] += a * b, in float
MacMut(M, r, c, a, b) == [M EXCEPT ![r][c] = FMul(a, b)]
Mac(M, r, c, a, b) == [M EXCEPT ![r][c] = FAdd(M[r][c], FMul(a, b))]

\* lines 41-44: the dimension check; line 47: i = 0
tiled_check ==
    /\ pc = "tiled_check"
    /\ IF DimMismatch
          THEN /\ stdout' = Append(stdout, <<"Matrix dimensions do not match">>)
               /\ ret_tiled' = "false"
               /\ calls' = Append(calls, <<"return", "tiled_matrix_mult", "false">>)
               /\ pc' = ReturnPc /\ stack' = ReturnStack
               /\ i' = i
          ELSE /\ i' = 0
               /\ pc' = "tiled_i"
               /\ UNCHANGED <<stdout, ret_tiled, calls, stack>>
    /\ UNCHANGED <<entry, mats, mat_res_vec, mat_c_vec, dims, j, k, x, y, z,
                   ret_baseline, exit_status, out0, tvisits, bvisits>>

\* line 47: i < a_mat_rows; line 48: j = 0; line 63: return true
tiled_i ==
    /\ pc = "tiled_i"
    /\ IF i < a_mat_rows
          THEN /\ j' = 0
               /\ pc' = "tiled_j"
               /\ UNCHANGED <<ret_tiled, calls, stack>>
          ELSE /\ ret_tiled' = "true"
               /\ calls' = Append(calls, <<"return", "tiled_matrix_mult", "true">>)
               /\ pc' = ReturnPc /\ stack' = ReturnStack
               /\ j' = j
    /\ UNCHANGED <<entry, mats, mat_res_vec, mat_c_vec, dims, i, k, x, y, z,
                   ret_baseline, exit_status, stdout, out0, tvisits, bvisits>>

\* line 48: j < b_mat_cols; line 49: k = 0; line 47: i += tile_size
tiled_j ==
    /\ pc = "tiled_j"
    /\ IF j < b_mat_cols
          THEN /\ k' = 0 /\ i' = i
               /\ pc' = "tiled_k"
          ELSE /\ i' = NextTile(i) /\ k' = k
               /\ pc' = "tiled_i"
    /\ UNCHANGED <<entry, stack, mats, mat_res_vec, mat_c_vec, dims, j, x, y, z,
                   rets, stdout, out0, tvisits, bvisits, calls>>

\* line 49: k < a_mat_cols; line 52: x = i; line 48: j += tile_size
tiled_k ==
    /\ pc = "tiled_k"
    /\ IF k < a_mat_cols
          THEN /\ x' = TileStart(i) /\ j' = j
               /\ pc' = "tiled_x"
          ELSE /\ j' = NextTile(j) /\ x' = x
               /\ pc' = "tiled_j"
    /\ UNCHANGED <<entry, stack, mats, mat_res_vec, mat_c_vec, dims, i, k, y, z,
                   rets, stdout, out0, tvisits, bvisits, calls>>

\* line 52: x < min(i + tile_size, a_mat_rows); line 53: y = j; line 49: k += tile_size
tiled_x ==
    /\ pc = "tiled_x"
    /\ IF x < TileEnd(i, a_mat_rows)
          THEN /\ y' = TileStart(j) /\ k' = k
               /\ pc' = "tiled_y"
          ELSE /\ k' = NextTile(k) /\ y' = y
               /\ pc' = "tiled_k"
    /\ UNCHANGED <<entry, stack, mats, mat_res_vec, mat_c_vec, dims, i, j, x, z,
                   rets, stdout, out0, tvisits, bvisits, calls>>

\* line 53: y < min(j + tile_size, b_mat_cols); line 54: z = k; line 52: ++x
tiled_y ==
    /\ pc = "tiled_y"
    /\ IF y < TileEnd(j, b_mat_cols)
          THEN /\ z' = TileStart(k) /\ x' = x
               /\ pc' = "tiled_z"
          ELSE /\ x' = UAdd(x, 1) /\ z' = z
               /\ pc' = "tiled_x"
    /\ UNCHANGED <<entry, stack, mats, mat_res_vec, mat_c_vec, dims, i, j, k, y,
                   rets, stdout, out0, tvisits, bvisits, calls>>

\* line 54: z < min(k + tile_size, a_mat_cols); line 55: the multiply-accumulate,
\* then ++z; line 53: ++y
tiled_z ==
    /\ pc = "tiled_z"
    /\ IF z < TileEnd(k, a_mat_cols)
          THEN /\ Len(tvisits) <= VisitCap
               /\ mat_res_vec' = Mac(mat_res_vec, x, y, mat_a_vec[x][z], mat_b_vec[z][y])
               /\ tvisits' = Append(tvisits, <<x, y, z, mat_res_vec'[x][y]>>)
               /\ z' = UAdd(z, 1) /\ y' = y
               /\ pc' = pc
          ELSE /\ y' = UAdd(y, 1) /\ z' = z
               /\ pc' = "tiled_y"
               /\ UNCHANGED <<mat_res_vec, tvisits>>
    /\ UNCHANGED <<entry, stack, mats, mat_c_vec, dims, i, j, k, x,
                   rets, stdout, out0, bvisits, calls>>

\* With tile_size = 0 no tile loop that is entered ever advances and none of them
\* does input, output or a volatile or atomic access: the program has undefined
\* behaviour [intro.progress].  A build either keeps the loops (the actions
\* above, for ever) or assumes they end and falls through to line 63.
tiled_no_progress ==
    /\ pc \in {"tiled_j", "tiled_k", "tiled_x"}
    /\ tile_size = 0
    /\ ret_tiled' = "true"
    /\ calls' = Append(calls, <<"return", "tiled_matrix_mult", "true">>)
    /\ pc' = ReturnPc /\ stack' = ReturnStack
    /\ UNCHANGED <<entry, mats, mat_res_vec, mat_c_vec, dims, idx,
                   ret_baseline, exit_status, stdout, out0, tvisits, bvisits>>

(* -------------------- cpu_2d_matrix_mult_baseline --------------------- *)
\* lines 89-92: the dimension check; line 95: i = 0
baseline_check ==
    /\ pc = "baseline_check"
    /\ IF DimMismatch
          THEN /\ stdout' = Append(stdout, <<"Matrix dimensions do not match">>)
               /\ ret_baseline' = "false"
               /\ calls' = Append(calls, <<"return", "cpu_2d_matrix_mult_baseline", "false">>)
               /\ pc' = ReturnPc /\ stack' = ReturnStack
               /\ i' = i
          ELSE /\ i' = 0
               /\ pc' = "baseline_i"
               /\ UNCHANGED <<stdout, ret_baseline, calls, stack>>
    /\ UNCHANGED <<entry, mats, mat_res_vec, mat_c_vec, dims, j, k, x, y, z,
                   ret_tiled, exit_status, out0, tvisits, bvisits>>

\* line 95: i < a_mat_rows; line 96: j = 0; line 103: return true
baseline_i ==
    /\ pc = "baseline_i"
    /\ IF i < a_mat_rows
          THEN /\ j' = 0
               /\ pc' = "baseline_j"
               /\ UNCHANGED <<ret_baseline, calls, stack>>
          ELSE /\ ret_baseline' = "true"
               /\ calls' = Append(calls, <<"return", "cpu_2d_matrix_mult_baseline", "true">>)
               /\ pc' = ReturnPc /\ stack' = ReturnStack
               /\ j' = j
    /\ UNCHANGED <<entry, mats, mat_res_vec, mat_c_vec, dims, i, k, x, y, z,
                   ret_tiled, exit_status, stdout, out0, tvisits, bvisits>>

\* line 96: j < b_mat_cols; line 97: k = 0; line 95: i++
baseline_j ==
    /\ pc = "baseline_j"
    /\ IF j < b_mat_cols
          THEN /\ k' = 0 /\ i' = i
               /\ pc' = "baseline_k"
          ELSE /\ i' = UAdd(i, 1) /\ k' = k
               /\ pc' = "baseline_i"
    /\ UNCHANGED <<entry, stack, mats, mat_res_vec, mat_c_vec, dims, j, x, y, z,
                   rets, stdout, out0, tvisits, bvisits, calls>>

\* line 97: k < a_mat_cols; line 98: the multiply-accumulate, then k++; line 96: j++
baseline_k ==
    /\ pc = "baseline_k"
    /\ IF k < a_mat_cols
          THEN /\ mat_c_vec' = Mac(mat_c_vec, i, j, mat_a_vec[i][k], mat_b_vec[k][j])
               /\ bvisits' = Append(bvisits, <<i, j, k, mat_c_vec'[i][j]>>)
               /\ k' = UAdd(k, 1) /\ j' = j
               /\ pc' = pc
          ELSE /\ j' = UAdd(j, 1) /\ k' = k
               /\ pc' = "baseline_j"
               /\ UNCHANGED <<mat_c_vec, bvisits>>
    /\ UNCHANGED <<entry, stack, mats, mat_res_vec, dims, i, x, y, z,
                   rets, stdout, out0, tvisits, calls>>

(* ---------------------------- unit_testing ----------------------------- *)
\* line 131: the zeroed reference matrix; line 134: the call of the baseline
ut_entry ==
    /\ pc = "ut_entry"
    /\ mat_c_vec' = ZeroMat(a_mat_rows, b_mat_cols)
    /\ calls' = Append(calls, <<"call", "cpu_2d_matrix_mult_baseline", "">>)
    /\ stack' = <<"ut_after_baseline">> \o stack
    /\ pc' = "baseline_check"
    /\ UNCHANGED <<entry, mats, mat_res_vec, dims, idx, rets, stdout, out0,
                   tvisits, bvisits>>

\* if (!cpu_2d_matrix_mult_baseline(...))
BaselineFailedMut(r) == FALSE
BaselineFailed(r) == r # "true"

\* lines 134-137: the baseline failed: report it and return; line 141: i = 0
ut_after_baseline ==
    /\ pc = "ut_after_baseline"
    /\ IF BaselineFailed(ret_baseline)
          THEN /\ stdout' = Append(stdout, <<"Error during baseline matrix multiplication">>)
               /\ calls' = Append(calls, <<"return", "unit_testing", "">>)
               /\ pc' = ReturnPc /\ stack' = ReturnStack
               /\ i' = i
          ELSE /\ i' = 0
               /\ pc' = "ut_i"
               /\ UNCHANGED <<stdout, calls, stack>>
    /\ UNCHANGED <<entry, mats, mat_res_vec, mat_c_vec, dims, j, k, x, y, z,
                   rets, out0, tvisits, bvisits>>

\* line 141: i < a_mat_rows; line 142: j = 0; line 148: return
ut_i ==
    /\ pc = "ut_i"
    /\ IF i < a_mat_rows
          THEN /\ j' = 0
               /\ pc' = "ut_j"
               /\ UNCHANGED <<calls, stack>>
          ELSE /\ calls' = Append(calls, <<"return", "unit_testing", "">>)
               /\ pc' = ReturnPc /\ stack' = ReturnStack
               /\ j' = j
    /\ UNCHANGED <<entry, mats, mat_res_vec, mat_c_vec, dims, i, k, x, y, z,
                   rets, stdout, out0, tvisits, bvisits>>

\* std::abs(mat_res_vec[i][j] - mat_c_vec[i][j]) > epsilon
IsMismatchMut(res, c) == FSub(res, c) * EpsDen > EpsNum * Pow2(UnitExp)
IsMismatch(res, c) == ExceedsEpsilon(FSub(res, c))

\* line 142: j < b_mat_cols; lines 143-145: compare one cell and report it,
\* then j++; line 141: i++
ut_j ==
    /\ pc = "ut_j"
    /\ IF j < b_mat_cols
          THEN /\ stdout' = IF IsMismatch(mat_res_vec[i][j], mat_c_vec[i][j])
                               THEN Append(stdout, <<"Mismatch", i, j>>)
                               ELSE stdout
               /\ j' = UAdd(j, 1) /\ i' = i
               /\ pc' = pc
          ELSE /\ i' = UAdd(i, 1) /\ j' = j
               /\ pc' = "ut_i"
               /\ stdout' = stdout
    /\ UNCHANGED <<entry, stack, mats, mat_res_vec, mat_c_vec, dims, k, x, y, z,
                   rets, out0, tvisits, bvisits, calls>>

(* ---------------------------- result_print ----------------------------- *)
\* line 166: i < a_mat_rows; line 167: j = 0; line 172: return
print_i ==
    /\ pc = "print_i"
    /\ IF i < a_mat_rows
          THEN /\ j' = 0
               /\ pc' = "print_j"
               /\ UNCHANGED <<calls, stack>>
          ELSE /\ calls' = Append(calls, <<"return", "result_print", "">>)
               /\ pc' = ReturnPc /\ stack' = ReturnStack
               /\ j' = j
    /\ UNCHANGED <<entry, mats, mat_res_vec, mat_c_vec, dims, i, k, x, y, z,
                   rets, stdout, out0, tvisits, bvisits>>

\* line 167: j < b_mat_cols; line 168: print one cell, then j++;
\* line 170: end the row; line 166: i++
print_j ==
    /\ pc = "print_j"
    /\ IF j < b_mat_cols
          THEN /\ stdout' = Append(stdout, <<"cell", mat_res_vec[i][j]>>)
               /\ j' = UAdd(j, 1) /\ i' = i
               /\ pc' = pc
          ELSE /\ stdout' = Append(stdout, <<"newline">>)
               /\ i' = UAdd(i, 1) /\ j' = j
               /\ pc' = "print_i"
    /\ UNCHANGED <<entry, stack, mats, mat_res_vec, mat_c_vec, dims, k, x, y, z,
                   rets, out0, tvisits, bvisits, calls>>

(* -------------------------------- main --------------------------------- *)
\* if (a_mat_cols != b_mat_rows)
MainDimMismatchMut(ca, rb) == FALSE
MainDimMismatch(ca, rb) == ca # rb

\* lines 181-187: read the four dimensions; lines 190-193: reject a mismatch
main_dims ==
    /\ pc = "main_dims"
    /\ \E ra \in 0..MaxDim, ca \in 0..MaxDim, rb \in 0..MaxDim, cb \in 0..MaxDim :
        /\ a_mat_rows' = ra /\ a_mat_cols' = ca
        /\ b_mat_rows' = rb /\ b_mat_cols' = cb
        /\ IF MainDimMismatch(ca, rb)
              THEN /\ stdout' = Append(stdout, <<"Matrix dimensions do not match">>)
                   /\ exit_status' = 1
                   /\ calls' = Append(calls, <<"return", "main", "1">>)
                   /\ pc' = "done"
              ELSE /\ pc' = "main_tile"
                   /\ UNCHANGED <<stdout, exit_status, calls>>
    /\ UNCHANGED <<entry, stack, mats, mat_res_vec, mat_c_vec, tile_size, idx,
                   ret_tiled, ret_baseline, out0, tvisits, bvisits>>

\* lines 196-198: read the tile size
main_tile ==
    /\ pc = "main_tile"
    /\ \E t \in 0..MaxTile : tile_size' = t
    /\ calls' = Append(calls, <<"read", "tile_size", "">>)
    /\ pc' = "main_init"
    /\ UNCHANGED <<entry, stack, mats, mat_res_vec, mat_c_vec, a_mat_rows,
                   a_mat_cols, b_mat_rows, b_mat_cols, idx, rets, stdout, out0,
                   tvisits, bvisits>>

\* lines 204-217: size the three matrices, zero the result, read A and B;
\* line 223: the call of the tiled multiplier
main_init ==
    /\ pc = "main_init"
    /\ \E pa \in APatterns, pb \in BPatterns :
        /\ mat_a_vec' = AMat(pa, a_mat_rows, a_mat_cols)
        /\ mat_b_vec' = BMat(pb, b_mat_rows, b_mat_cols)
    /\ mat_res_vec' = ZeroMat(a_mat_rows, b_mat_cols)
    /\ out0' = mat_res_vec'
    /\ calls' = Append(calls, <<"call", "tiled_matrix_mult", "">>)
    /\ stack' = <<"main_after_tiled">> \o stack
    /\ pc' = "tiled_check"
    /\ UNCHANGED <<entry, mat_c_vec, dims, idx, rets, stdout, tvisits, bvisits>>

\* lines 223-225: give up when the tiled multiplier failed; line 228: the call
\* of the verifier
main_after_tiled ==
    /\ pc = "main_after_tiled"
    /\ IF ret_tiled # "true"
          THEN /\ exit_status' = 1
               /\ calls' = Append(calls, <<"return", "main", "1">>)
               /\ pc' = "done"
               /\ stack' = stack
          ELSE /\ calls' = Append(calls, <<"call", "unit_testing", "">>)
               /\ stack' = <<"main_after_ut">> \o stack
               /\ pc' = "ut_entry"
               /\ exit_status' = exit_status
    /\ UNCHANGED <<entry, mats, mat_res_vec, mat_c_vec, dims, idx, ret_tiled,
                   ret_baseline, stdout, out0, tvisits, bvisits>>

\* line 231: the call of result_print; line 166: i = 0
main_after_ut ==
    /\ pc = "main_after_ut"
    /\ calls' = Append(calls, <<"call", "result_print", "">>)
    /\ stack' = <<"main_after_print">> \o stack
    /\ i' = 0
    /\ pc' = "print_i"
    /\ UNCHANGED <<entry, mats, mat_res_vec, mat_c_vec, dims, j, k, x, y, z,
                   rets, stdout, out0, tvisits, bvisits>>

\* line 232: return 0
main_after_print ==
    /\ pc = "main_after_print"
    /\ exit_status' = 0
    /\ calls' = Append(calls, <<"return", "main", "0">>)
    /\ pc' = "done"
    /\ UNCHANGED <<entry, stack, mats, mat_res_vec, mat_c_vec, dims, idx,
                   ret_tiled, ret_baseline, stdout, out0, tvisits, bvisits>>

(* --------------------------- specifications ---------------------------- *)
TiledLoops ==
    \/ tiled_check \/ tiled_i \/ tiled_j \/ tiled_k \/ tiled_x \/ tiled_y
    \/ tiled_z

Next ==
    \/ TiledLoops \/ tiled_no_progress
    \/ baseline_check \/ baseline_i \/ baseline_j \/ baseline_k
    \/ ut_entry \/ ut_after_baseline \/ ut_i \/ ut_j
    \/ print_i \/ print_j
    \/ main_dims \/ main_tile \/ main_init \/ main_after_tiled
    \/ main_after_ut \/ main_after_print

\* every entry point, with dimensions up to MaxDim and tile sizes up to MaxTile
Spec == Init /\ [][Next]_vars

\* a direct call of tiled_matrix_mult with every dimension and every non-zero
\* tile size an unsigned int can hold
InitWide ==
    \E ra \in 1..(UIntMod - 1), ca \in 1..(UIntMod - 1), cb \in 1..(UIntMod - 1),
       t \in 1..(UIntMod - 1) :
        /\ entry = "tiled_matrix_mult" /\ pc = "tiled_check"
        /\ calls = << <<"call", "tiled_matrix_mult", "">> >>
        /\ a_mat_rows = ra /\ a_mat_cols = ca /\ b_mat_rows = ca /\ b_mat_cols = cb
        /\ tile_size = t
        /\ mat_a_vec = AMat(2, ra, ca) /\ mat_b_vec = BMat(2, ca, cb)
        /\ mat_res_vec = ZeroMat(ra, cb)
        /\ mat_c_vec = ZeroMat(0, 0)
        /\ out0 = mat_res_vec
        /\ Idle

SpecWide == InitWide /\ [][TiledLoops]_vars

(* ------------------------ vocabulary of the claims -------------------- *)
Range(s) == {s[n] : n \in DOMAIN s}
Rows == 0..(a_mat_rows - 1)
Cols == 0..(b_mat_cols - 1)
Inner == 0..(a_mat_cols - 1)
Triple(v) == <<v[1], v[2], v[3]>>

\* the inputs the contract of the multipliers calls valid
DimsValid == a_mat_rows >= 1 /\ a_mat_cols >= 1 /\ b_mat_cols >= 1
InnerAgrees == a_mat_cols = Size(mat_b_vec)
ZeroInit == out0 = ZeroMat(a_mat_rows, b_mat_cols)
ValidTiledCall == DimsValid /\ InnerAgrees /\ tile_size >= 1

\* control is inside tiled_matrix_mult
TiledPcs == {"tiled_check", "tiled_i", "tiled_j", "tiled_k", "tiled_x", "tiled_y", "tiled_z"}

\* the cell's sum of products, accumulated in ascending k as line 98 does
Product(r, c) == RefSum(mat_a_vec, mat_b_vec, r, c, a_mat_cols)

\* the updates of one output cell, in the order they were made
CellVisits(visits, r, c) ==
    LET OfCell(v) == v[1] = r /\ v[2] = c IN SelectSeq(visits, OfCell)

\* the Mismatch records printf has written, in order
Mismatches ==
    LET IsRecord(v) == v[1] = "Mismatch" IN SelectSeq(stdout, IsRecord)

\* how far the loop nest of tiled_matrix_mult has got: the live loop indices,
\* outermost first, read as one number
Base == UIntMod + 1
Digits ==
    IF pc = "tiled_i" THEN <<i + 1, 0, 0, 0, 0, 0>>
    ELSE IF pc = "tiled_j" THEN <<i + 1, j + 1, 0, 0, 0, 0>>
    ELSE IF pc = "tiled_k" THEN <<i + 1, j + 1, k + 1, 0, 0, 0>>
    ELSE IF pc = "tiled_x" THEN <<i + 1, j + 1, k + 1, x + 1, 0, 0>>
    ELSE IF pc = "tiled_y" THEN <<i + 1, j + 1, k + 1, x + 1, y + 1, 0>>
    ELSE IF pc = "tiled_z" THEN <<i + 1, j + 1, k + 1, x + 1, y + 1, z + 1>>
    ELSE <<0, 0, 0, 0, 0, 0>>
Progress ==
    LET d == Digits
    IN  ((((d[1] * Base + d[2]) * Base + d[3]) * Base + d[4]) * Base + d[5]) * Base + d[6]

\* index of the first occurrence of event e in the call history, 0 when absent
Pos(e) ==
    IF e \in Range(calls) THEN CHOOSE n \in DOMAIN calls :
                                   calls[n] = e /\ \A m \in 1..(n - 1) : calls[m] # e
    ELSE 0

\* Both histories only grow, so a statement about the latest update that holds
\* in every state holds of every update.
\* the latest update follows its predecessor in the order of the baseline's loop
\* nest: by row, then by column, then by contraction index
LexBefore(u, v) ==
    \/ u[1] < v[1]
    \/ u[1] = v[1] /\ u[2] < v[2]
    \/ u[1] = v[1] /\ u[2] = v[2] /\ u[3] < v[3]
LatestInBaselineOrder(visits) ==
    Len(visits) >= 2 => LexBefore(visits[Len(visits) - 1], visits[Len(visits)])

\* the latest update of a cell carries the contraction index that equals the
\* number of earlier updates of that cell (so the cell's indices are 0, 1, 2, ...)
\* and leaves the partial sum of the ascending float summation up to that index
LatestIsNextPartialSum(visits) ==
    visits # << >> =>
        LET v == visits[Len(visits)]
            earlier == Cardinality({n \in 1..(Len(visits) - 1) :
                                       visits[n][1] = v[1] /\ visits[n][2] = v[2]})
        IN  /\ v[3] = earlier
            /\ v[4] = RefSum(mat_a_vec, mat_b_vec, v[1], v[2], earlier + 1)

\* the tile is at least as large as every dimension
OneTile ==
    tile_size >= a_mat_rows /\ tile_size >= a_mat_cols /\ tile_size >= b_mat_cols

\* the cells whose candidate value is further than 1e-6 from the product, as
\* Mismatch records in row-major order, from cell number n on
RECURSIVE ExpectedMismatches(_)
ExpectedMismatches(n) ==
    IF n >= a_mat_rows * b_mat_cols THEN << >>
    ELSE LET r == n \div b_mat_cols
             c == n % b_mat_cols
             d == mat_res_vec[r][c] - Product(r, c)
         IN  (IF Abs(d) * 1000000 > Pow2(UnitExp) THEN << <<"Mismatch", r, c>> >> ELSE << >>)
                 \o ExpectedMismatches(n + 1)

(* ------------------------------- claims -------------------------------- *)

\* the parts of C1: the values left, and the progress of the loop nest
C1_CellsInv ==
    /\ ValidTiledCall => ret_tiled # "false"
    /\ (ValidTiledCall /\ ZeroInit /\ ret_tiled = "true") =>
           \A r \in Rows, c \in Cols : mat_res_vec[r][c] = Product(r, c)
    /\ (DimsValid /\ InnerAgrees /\ ret_baseline = "true"
            /\ (entry = "cpu_2d_matrix_mult_baseline" => ZeroInit)) =>
           \A r \in Rows, c \in Cols : mat_c_vec[r][c] = Product(r, c)
    /\ (ValidTiledCall /\ ZeroInit /\ ret_tiled = "true" /\ ret_baseline = "true") =>
           mat_res_vec = mat_c_vec
C1_Advances ==
    (ValidTiledCall /\ pc \in TiledPcs /\ pc' \in TiledPcs) => Progress' > Progress
\* C1: a call of tiled_matrix_mult with dimensions >= 1, agreeing inner
\* dimensions, a tile size >= 1 and a zeroed output never returns false, moves
\* forward through its loop nest with every step (so it returns), and once it has
\* returned true every cell out[i][j] holds the sum over k of A[i][k]*B[k][j];
\* the baseline, from a zeroed output, leaves that same sum, and when both have
\* run on the same A and B their outputs are equal.
C1_TiledEqualsBaseline == []C1_CellsInv /\ [][C1_Advances]_vars

\* C1 witness: a 2x3 by 3x3 product with tile size 2, which divides neither 3,
\* has returned true with a non-zero cell
C1_Witness ==
    /\ entry = "tiled_matrix_mult" /\ pc = "done" /\ ret_tiled = "true"
    /\ ValidTiledCall /\ ZeroInit
    /\ a_mat_rows = 2 /\ a_mat_cols = 3 /\ b_mat_cols = 3 /\ tile_size = 2
    /\ mat_res_vec[1][2] # 0

\* C2: in a call with dimensions >= 1, agreeing inner dimensions and a tile size
\* >= 1, line 55 executes only for triples inside the three ranges, the indices
\* are inside the ranges whenever line 55 is about to execute, no triple is
\* executed twice, and at the return every triple has been executed.
C2_EachTripleOnce ==
    ValidTiledCall =>
        /\ \A n \in DOMAIN tvisits :
               tvisits[n][1] \in Rows /\ tvisits[n][2] \in Cols /\ tvisits[n][3] \in Inner
        /\ (pc = "tiled_z" /\ z < TileEnd(k, a_mat_cols)) =>
               (x \in Rows /\ y \in Cols /\ z \in Inner)
        /\ Cardinality({Triple(tvisits[n]) : n \in DOMAIN tvisits}) = Len(tvisits)
        /\ ret_tiled = "true" =>
               {Triple(tvisits[n]) : n \in DOMAIN tvisits} = Rows \X Cols \X Inner

\* C2 witness: a 3x3 by 3x3 call with tile size 2 (every edge tile clipped) has
\* returned after 27 executions of line 55
C2_Witness ==
    /\ ValidTiledCall /\ ret_tiled = "true"
    /\ a_mat_rows = 3 /\ a_mat_cols = 3 /\ b_mat_cols = 3 /\ tile_size = 2
    /\ Len(tvisits) = 27

\* C3: when cols_A differs from the row count of B, a multiplier never returns
\* true, has returned false when it is done, executes no multiply-accumulate and
\* leaves its output as it was at the call, whatever the tile size and whatever
\* the output held.
C3_MismatchRejected ==
    (a_mat_cols # Size(mat_b_vec) /\ entry # "main") =>
        /\ ret_tiled # "true" /\ ret_baseline # "true"
        /\ tvisits = << >> /\ bvisits = << >>
        /\ entry = "tiled_matrix_mult" =>
               /\ mat_res_vec = out0
               /\ pc \in {"tiled_check", "done"}
               /\ pc = "done" => ret_tiled = "false"
        /\ entry = "cpu_2d_matrix_mult_baseline" =>
               /\ mat_c_vec = out0
               /\ pc \in {"baseline_check", "done"}
               /\ pc = "done" => ret_baseline = "false"

\* C3 witness: a tiled call with cols_A < rows of B and a non-zero output has
\* returned false
C3_Witness ==
    /\ entry = "tiled_matrix_mult" /\ pc = "done" /\ ret_tiled = "false"
    /\ a_mat_cols < Size(mat_b_vec)
    /\ tile_size = 2
    /\ mat_res_vec = DirtyMat(a_mat_rows, b_mat_cols)

\* C4: a call of tiled_matrix_mult with tile size 0, dimensions >= 1 and
\* agreeing inner dimensions never enters a tile loop (whose step would be
\* zero), and when it has returned it has either returned false with the output
\* as it was or returned true with the product in every cell.
C4_ZeroTileRejected ==
    (entry = "tiled_matrix_mult" /\ tile_size = 0 /\ DimsValid /\ InnerAgrees /\ ZeroInit) =>
        /\ pc \notin {"tiled_j", "tiled_k", "tiled_x", "tiled_y", "tiled_z"}
        /\ ret_tiled = "false" => mat_res_vec = out0
        /\ ret_tiled = "true" =>
               \A r \in Rows, c \in Cols : mat_res_vec[r][c] = Product(r, c)

\* C5: in a run of main with dimensions >= 1 and a tile size >= 1, unit_testing
\* (run on what tiled_matrix_mult left in the zeroed result) writes no Mismatch
\* record.
C5_NoMismatchOnTiledResult ==
    (entry = "main" /\ DimsValid /\ tile_size >= 1) => Mismatches = << >>

\* C5 witness: main has verified a 3x3 by 3x3 product computed with tile size 2
\* in which float rounding made a cell differ from the exact sum
C5_Witness ==
    /\ entry = "main" /\ <<"return", "unit_testing", "">> \in Range(calls)
    /\ a_mat_rows = 3 /\ a_mat_cols = 3 /\ b_mat_cols = 3 /\ tile_size = 2
    /\ mat_res_vec[0][0] = 8
    /\ mat_a_vec[0][0] * mat_b_vec[0][0] + mat_a_vec[0][1] * mat_b_vec[1][0]
           + mat_a_vec[0][2] * mat_b_vec[2][0] = 10

\* C6: when unit_testing has returned after a successful baseline, the Mismatch
\* records it has written are exactly the cells whose candidate value differs
\* from the product by more than 1e-6, each once, in row-major order.
C6_ReportsExactlyTheMismatches ==
    (<<"return", "unit_testing", "">> \in Range(calls) /\ DimsValid
            /\ ret_baseline = "true") =>
        Mismatches = ExpectedMismatches(0)

\* C6 witness: the verifier was handed the 3x3 product with cell (1, 2) moved
\* and has reported that cell and no other
C6_Witness ==
    /\ entry = "unit_testing" /\ pc = "done"
    /\ a_mat_rows = 3 /\ b_mat_cols = 3
    /\ Mismatches = << <<"Mismatch", 1, 2>> >>
    /\ \A r \in Rows, c \in Cols : <<r, c>> # <<1, 2>> => mat_res_vec[r][c] = mat_c_vec[r][c]

\* the parts of C7: what holds in every state, and what no step changes
C7_Inv ==
    (entry = "unit_testing" /\ a_mat_cols # Size(mat_b_vec)) =>
        /\ pc \notin {"ut_i", "ut_j"}
        /\ Mismatches = << >>
        /\ mat_res_vec = out0
        /\ pc # "ut_entry" => mat_c_vec = ZeroMat(a_mat_rows, b_mat_cols)
        /\ pc = "done" =>
               /\ ret_baseline = "false"
               /\ stdout = << <<"Matrix dimensions do not match">>,
                              <<"Error during baseline matrix multiplication">> >>
C7_Const ==
    entry = "unit_testing" => UNCHANGED <<mat_a_vec, mat_b_vec, mat_res_vec>>
\* C7: when unit_testing is called with cols_A different from the row count of
\* B, it never reaches its comparison loops and writes no Mismatch record, its
\* reference matrix stays zero, when it is done it has written the baseline's
\* message and its own error message, and no step changes A, B or the candidate.
C7_BaselineFailureShortCircuits == []C7_Inv /\ [][C7_Const]_vars

\* C7 witness: unit_testing has returned from a call with mismatched inner
\* dimensions and a candidate full of values further than 1e-6 from zero
C7_Witness ==
    /\ entry = "unit_testing" /\ pc = "done"
    /\ a_mat_cols # Size(mat_b_vec)
    /\ mat_res_vec = DirtyMat(a_mat_rows, b_mat_cols)
    /\ Len(stdout) = 2

\* C8: with W-bit unsigned indices, for every tile size in 1..2^W-1 and all
\* dimensions in 1..2^W-1, no triple is executed twice and at the return every
\* triple has been executed.
C8_CorrectForEveryWidthValue ==
    /\ Cardinality({Triple(tvisits[n]) : n \in DOMAIN tvisits}) = Len(tvisits)
    /\ ret_tiled = "true" =>
           {Triple(tvisits[n]) : n \in DOMAIN tvisits} = Rows \X Cols \X Inner

\* C9: in a run of main, once the dimensions are read with cols_A different from
\* rows_B the program has exited with status 1 and has neither read the tile size
\* nor called anything; unit_testing is called only after tiled_matrix_mult
\* returned true; result_print is called only after unit_testing returned; and
\* if tiled_matrix_mult returned false the program calls neither and exits with
\* status 1.
C9_MainOrder ==
    entry = "main" =>
        /\ (pc # "main_dims" /\ a_mat_cols # b_mat_rows) =>
               /\ pc = "done" /\ exit_status = 1
               /\ calls = << <<"call", "main", "">>, <<"return", "main", "1">> >>
        /\ Pos(<<"call", "unit_testing", "">>) > 0 =>
               /\ Pos(<<"return", "tiled_matrix_mult", "true">>) > 0
               /\ Pos(<<"return", "tiled_matrix_mult", "true">>)
                      < Pos(<<"call", "unit_testing", "">>)
        /\ Pos(<<"call", "result_print", "">>) > 0 =>
               /\ Pos(<<"return", "unit_testing", "">>) > 0
               /\ Pos(<<"return", "unit_testing", "">>)
                      < Pos(<<"call", "result_print", "">>)
        /\ ret_tiled = "false" =>
               /\ Pos(<<"call", "unit_testing", "">>) = 0
               /\ Pos(<<"call", "result_print", "">>) = 0
               /\ pc \in {"main_after_tiled", "done"}
               /\ pc = "done" => exit_status = 1
        /\ Pos(<<"call", "tiled_matrix_mult", "">>) > 0 =>
               /\ Pos(<<"read", "tile_size", "">>) > 0
               /\ a_mat_cols = b_mat_rows

\* C9 witness: main has returned 0 after calling the tiled multiplier, the
\* verifier and the printer, in that order
C9_Witness ==
    /\ entry = "main" /\ pc = "done" /\ exit_status = 0
    /\ a_mat_rows = 2 /\ tile_size = 2
    /\ Pos(<<"call", "tiled_matrix_mult", "">>) < Pos(<<"call", "unit_testing", "">>)
    /\ Pos(<<"call", "unit_testing", "">>) < Pos(<<"call", "result_print", "">>)
    /\ Pos(<<"call", "result_print", "">>) < Pos(<<"return", "main", "0">>)

\* C10: for a tile size >= 1 the updates of each output cell are the contraction
\* indices 0, 1, ..., cols_A - 1 in ascending order, each leaving the partial sum
\* of the ascending float summation, in the tiled multiplier as in the baseline;
\* when both have run, each cell went through the same sequence of updates and
\* the two outputs are equal; and with a tile size >= every dimension the tiled
\* multiplier's whole sequence of updates is the baseline's.
C10_SameOrderPerCell ==
    /\ (ValidTiledCall /\ ZeroInit) =>
           /\ LatestIsNextPartialSum(tvisits)
           /\ OneTile => LatestInBaselineOrder(tvisits)
           /\ (ret_tiled = "true" /\ pc \in {"done", "main_after_tiled"}) =>
                  \A r \in Rows, c \in Cols : Len(CellVisits(tvisits, r, c)) = a_mat_cols
    /\ (DimsValid /\ InnerAgrees /\ (entry = "cpu_2d_matrix_mult_baseline" => ZeroInit)) =>
           /\ LatestIsNextPartialSum(bvisits)
           /\ LatestInBaselineOrder(bvisits)
           /\ (ret_baseline = "true" /\ pc \in {"done", "ut_after_baseline"}) =>
                  \A r \in Rows, c \in Cols : Len(CellVisits(bvisits, r, c)) = a_mat_cols
    /\ (ValidTiledCall /\ ZeroInit /\ ret_tiled = "true" /\ ret_baseline = "true"
            /\ pc = "ut_after_baseline") =>
           /\ \A r \in Rows, c \in Cols :
                  CellVisits(tvisits, r, c) = CellVisits(bvisits, r, c)
           /\ mat_res_vec = mat_c_vec
           /\ OneTile => tvisits = bvisits

\* C10 witness: main has run both multipliers on a 3x3 by 3x3 product with tile
\* size 2; the two sequences of updates differ, and rounding made cell (0, 0)
\* differ from the exact sum, which a descending summation would not have left
C10_Witness ==
    /\ entry = "main" /\ ret_tiled = "true" /\ ret_baseline = "true"
    /\ a_mat_rows = 3 /\ a_mat_cols = 3 /\ b_mat_cols = 3 /\ tile_size = 2
    /\ tvisits # bvisits
    /\ mat_res_vec[0][0] = 8
    /\ FAdd(FAdd(FMul(mat_a_vec[0][2], mat_b_vec[2][0]),
                 FMul(mat_a_vec[0][1], mat_b_vec[1][0])),
            FMul(mat_a_vec[0][0], mat_b_vec[0][0])) = 10

=============================================================================
